---- MODULE Spec2Model ----
(***************************************************************************)
(* Model of the Assignment Generator single-page application.              *)
(*                                                                         *)
(* Two revisions of the component are in the repository: src/src/App.tsx   *)
(* (the latest one: output-file-name override, credential gate) and        *)
(* src/unnamed/part_000 (the one before it).  The variable rev says which  *)
(* of the two is running; it never changes.                                *)
(*                                                                         *)
(* Text is a sequence of tokens.  The token " " is one whitespace          *)
(* character, every other token is a non-empty run of non-whitespace       *)
(* characters.  An optional value (string | null) is Null or Some(v).      *)
(*                                                                         *)
(* React state: the variables formData, isGenerating, generatedImageUrl,   *)
(* error and isPdfContent hold the component's state as the queued updates *)
(* leave it.  A handler is a closure of the render that created it: what   *)
(* it reads directly (formData.topics.length, formData in handleSubmit,    *)
(* the disabled attribute of the submit button) comes from rendered, the   *)
(* snapshot of the last render, and what it reads inside an updater        *)
(* function (prev => ...) comes from the state itself.  Render is the      *)
(* re-render React schedules after an update; when it runs relative to the *)
(* next event is not fixed by the source, so it is a step of its own.      *)
(***************************************************************************)
EXTENDS Integers, Sequences, FiniteSets, TLC

VARIABLES
    rev,                \* "App" (src/src/App.tsx) or "part_000"
    envKey,             \* import.meta.env.VITE_GEMINI_API_KEY ("" when unset)
    formData,           \* useState<FormData>
    isGenerating,       \* useState(false)
    generatedImageUrl,  \* useState<string | null>(null)
    error,              \* useState<string | null>(null)
    isPdfContent,       \* useState(false)
    rendered,           \* the state as of the last render (what closures see)
    requests,           \* the requests in flight, oldest first: how far the
                        \* continuation of handleSubmit has come for each
    edits,              \* number of form-editing events handled so far
    resultKind,         \* history: which branch produced generatedImageUrl
    resultName,         \* history: output_filename of the request that
                        \* produced generatedImageUrl (sent), and the
                        \* outputFilename of the form when it was submitted,
                        \* as handleSubmit read it (override) and as the
                        \* state held it (typed)
    sinceReset,         \* history: resetForm ran and no handleSubmit since
    saved               \* the last file handed to the browser by downloadImage

vars == <<rev, envKey, formData, isGenerating, generatedImageUrl, error,
          isPdfContent, rendered, requests, edits, resultKind, resultName,
          sinceReset, saved>>

----------------------------------------------------------------------------
(* Bounds of the model *)

MaxTopics == 2

MaxEdits == 2

MaxInFlight == 2

----------------------------------------------------------------------------
(* Values *)

Null == <<>>

Some(v) == <<v>>

Revisions == {"App", "part_000"}

\* characters matched by \s and stripped by String.prototype.trim
Whitespace == {" "}

RECURSIVE TrimStart(_)
TrimStart(s) ==
    IF s # <<>> /\ Head(s) \in Whitespace THEN TrimStart(Tail(s)) ELSE s

RECURSIVE TrimEnd(_)
TrimEnd(s) ==
    IF s # <<>> /\ s[Len(s)] \in Whitespace
    THEN TrimEnd(SubSeq(s, 1, Len(s) - 1))
    ELSE s

\* String.prototype.trim
Trim(s) == TrimEnd(TrimStart(s))

\* s.replace(/\s+/g, "")
RemoveWhitespace(s) == SelectSeq(s, LAMBDA c : c \notin Whitespace)

\* NaN, the result of parseInt on text that does not start with a number;
\* every comparison with it is false
NaN == -999

Lt(a, b) == a # NaN /\ b # NaN /\ a < b

Gt(a, b) == a # NaN /\ b # NaN /\ a > b

DigitValue(c) ==
    CASE c = "0" -> 0 [] c = "1" -> 1 [] c = "2" -> 2 [] c = "3" -> 3
      [] c = "4" -> 4 [] c = "5" -> 5 [] c = "6" -> 6 [] c = "7" -> 7
      [] c = "8" -> 8 [] c = "9" -> 9 [] OTHER -> -1

RECURSIVE ParseDigits(_, _, _)
ParseDigits(s, acc, seen) ==
    IF s # <<>> /\ DigitValue(Head(s)) >= 0
    THEN ParseDigits(Tail(s), 10 * acc + DigitValue(Head(s)), TRUE)
    ELSE IF seen THEN acc ELSE NaN

\* parseInt(value): leading whitespace skipped, an optional sign, then the
\* longest run of digits; NaN when there is no digit
ParseInt(value) ==
    LET s == TrimStart(value)
    IN  IF s # <<>> /\ Head(s) = "-"
        THEN LET n == ParseDigits(Tail(s), 0, FALSE)
             IN  IF n = NaN THEN NaN ELSE 0 - n
        ELSE IF s # <<>> /\ Head(s) = "+"
        THEN ParseDigits(Tail(s), 0, FALSE)
        ELSE ParseDigits(s, 0, FALSE)

----------------------------------------------------------------------------
(* Form state *)

\* useState<FormData>({...}) of App.tsx
InitialFormDataApp ==
    [name |-> <<>>, classRoll |-> <<>>, universityRoll |-> <<>>,
     subjectName |-> <<>>, subjectCode |-> <<>>, topics |-> << <<>> >>,
     handwritingId |-> 4, geminiApiKey |-> <<>>, outputFilename |-> <<>>]

\* useState<FormData>({...}) of part_000; it has no outputFilename, which the
\* model keeps empty
InitialFormDataPart000(env) ==
    [name |-> <<>>, classRoll |-> <<>>, universityRoll |-> <<>>,
     subjectName |-> <<>>, subjectCode |-> <<>>, topics |-> << <<>> >>,
     handwritingId |-> 1, geminiApiKey |-> env, outputFilename |-> <<>>]

InitialFormData(r, env) ==
    IF r = "App" THEN InitialFormDataApp ELSE InitialFormDataPart000(env)

\* the object resetForm passes to setFormData, App.tsx
ResetFormDataApp ==
    [name |-> <<>>, classRoll |-> <<>>, universityRoll |-> <<>>,
     subjectName |-> <<>>, subjectCode |-> <<>>, topics |-> << <<>> >>,
     handwritingId |-> 1, geminiApiKey |-> <<>>, outputFilename |-> <<>>]

\* resetForm of part_000 with the credential left empty
ResetFormDataPart000Blank(env) ==
    [name |-> <<>>, classRoll |-> <<>>, universityRoll |-> <<>>,
     subjectName |-> <<>>, subjectCode |-> <<>>, topics |-> << <<>> >>,
     handwritingId |-> 1, geminiApiKey |-> <<>>, outputFilename |-> <<>>]

\* the object resetForm passes to setFormData, part_000
ResetFormDataPart000(env) ==
    [name |-> <<>>, classRoll |-> <<>>, universityRoll |-> <<>>,
     subjectName |-> <<>>, subjectCode |-> <<>>, topics |-> << <<>> >>,
     handwritingId |-> 1, geminiApiKey |-> env, outputFilename |-> <<>>]

ResetFormData(r, env) ==
    IF r = "App" THEN ResetFormDataApp ELSE ResetFormDataPart000(env)

\* the name attributes of the inputs bound to handleInputChange
TextFields(r) ==
    {"name", "classRoll", "universityRoll", "subjectName", "subjectCode",
     "geminiApiKey"} \cup (IF r = "App" THEN {"outputFilename"} ELSE {})

InputFields(r) == TextFields(r) \cup {"handwritingId"}

\* the values of the change events delivered to handleInputChange; the select
\* named handwritingId offers 1..6, and a value outside them arrives only with
\* a scripted event or an edited option list
InputValues(field) ==
    CASE field = "name" -> { <<"J", " ", "D">> }
      [] field = "classRoll" -> { <<"7">> }
      [] field = "universityRoll" -> { <<"21CS045">> }
      [] field = "subjectName" -> { <<"Maths">> }
      [] field = "subjectCode" -> { <<"CS", " ", "101">> }
      [] field = "outputFilename" -> { <<"essay1">> }
      [] field = "geminiApiKey" -> { <<" ">>, <<"k">> }
      [] field = "handwritingId" ->
            { <<"0">>, <<"1">>, <<"6">>, <<"7">>, <<"x">> }

\* the texts the model types into a topic textarea
TopicValues == { <<" ">>, <<"t">> }

\* the updater of handleInputChange:
\* prev => ({...prev, [name]: name === "handwritingId" ? parseInt(value) : value})
InputChangeUpdater(prev, field, value) ==
    [prev EXCEPT ![field] =
        IF field = "handwritingId" THEN ParseInt(value) ELSE value]

\* TopicChangeUpdater writing the value into every entry from index on
TopicChangeUpdaterFromIndex(prev, index, value) ==
    [prev EXCEPT !.topics =
        [i \in 1..Len(prev.topics) |->
            IF i - 1 >= index THEN value ELSE prev.topics[i]]]

\* the updater of handleTopicChange:
\* prev.topics.map((topic, i) => (i === index ? value : topic)), index from 0
TopicChangeUpdater(prev, index, value) ==
    [prev EXCEPT !.topics =
        [i \in 1..Len(prev.topics) |->
            IF i - 1 = index THEN value ELSE prev.topics[i]]]

\* the updater of addTopic: [...prev.topics, ""]
AddTopicUpdater(prev) ==
    [prev EXCEPT !.topics = Append(prev.topics, <<>>)]

\* RemoveAt removing the first entry whatever the index in bounds
RemoveFirst(s, index) ==
    IF index \in 0..(Len(s) - 1) THEN Tail(s) ELSE s

\* array.filter((_, i) => i !== index), index from 0
RemoveAt(s, index) ==
    [i \in 1..(Len(s) - (IF index \in 0..(Len(s) - 1) THEN 1 ELSE 0)) |->
        IF i - 1 < index \/ index < 0 THEN s[i] ELSE s[i + 1]]

\* the updater of removeTopic
RemoveTopicUpdater(prev, index) ==
    [prev EXCEPT !.topics = RemoveAt(prev.topics, index)]

\* the guard of removeTopic, read from the handler's closure:
\* formData.topics.length > 1
RemoveTopicAllowed(closure) == Len(closure.formData.topics) > 1

----------------------------------------------------------------------------
(* Submission: validation gates and request payload *)

TopicsRequiredMessage == "At least one topic/question is required."

HandwritingMessage == "Handwriting ID must be between 1 and 6."

ApiKeyMessage ==
    "Gemini API key is required. Please enter your API key or configure it in environment variables."

GenericFailureMessage == "Failed to generate assignment. Please try again."

\* validTopics without the trim: topic !== ""
validTopicsUntrimmed(fd) == SelectSeq(fd.topics, LAMBDA topic : topic # <<>>)

\* validTopics with the entries it keeps trimmed as well
validTopicsTrimmed(fd) ==
    LET kept == SelectSeq(fd.topics, LAMBDA topic : Trim(topic) # <<>>)
    IN  [i \in 1..Len(kept) |-> Trim(kept[i])]

\* formData.topics.filter((topic) => topic.trim() !== "")
validTopics(fd) == SelectSeq(fd.topics, LAMBDA topic : Trim(topic) # <<>>)

\* the range check with its upper limit off by one: > 7
HandwritingOutOfRangeOffByOne(fd) ==
    Lt(fd.handwritingId, 1) \/ Gt(fd.handwritingId, 7)

\* formData.handwritingId < 1 || formData.handwritingId > 6
HandwritingOutOfRange(fd) ==
    Lt(fd.handwritingId, 1) \/ Gt(fd.handwritingId, 6)

\* apiKey without the trim
apiKeyUntrimmed(fd, env) ==
    IF fd.geminiApiKey # <<>> THEN fd.geminiApiKey ELSE env

\* formData.geminiApiKey.trim() || import.meta.env.VITE_GEMINI_API_KEY || ""
apiKey(fd, env) ==
    IF Trim(fd.geminiApiKey) # <<>> THEN Trim(fd.geminiApiKey) ELSE env

\* SubmitGate with the handwriting gate ahead of the topics gate
SubmitGateHandwritingFirst(r, fd, env) ==
    IF HandwritingOutOfRange(fd) THEN "handwriting"
    ELSE IF Len(validTopics(fd)) = 0 THEN "topics"
    ELSE IF r = "App" /\ apiKey(fd, env) = <<>> THEN "credential"
    ELSE "send"

\* the gates of handleSubmit in the order of the code; "send" when all pass.
\* part_000 has no credential gate.
SubmitGate(r, fd, env) ==
    IF Len(validTopics(fd)) = 0 THEN "topics"
    ELSE IF HandwritingOutOfRange(fd) THEN "handwriting"
    ELSE IF r = "App" /\ apiKey(fd, env) = <<>> THEN "credential"
    ELSE "send"

GateMessage(gate) ==
    CASE gate = "topics" -> TopicsRequiredMessage
      [] gate = "handwriting" -> HandwritingMessage
      [] gate = "credential" -> ApiKeyMessage

\* DefaultOutputFilename with subjectCode trimmed at its ends only
DefaultOutputFilenameTrimmed(fd) ==
    fd.universityRoll \o <<"_">> \o Trim(fd.subjectCode)

\* `${formData.universityRoll}_${formData.subjectCode.replace(/\s+/g, "")}`
DefaultOutputFilename(fd) ==
    fd.universityRoll \o <<"_">> \o RemoveWhitespace(fd.subjectCode)

\* requestBody of App.tsx
requestBodyApp(fd, env) ==
    [name |-> fd.name, class_roll |-> fd.classRoll,
     university_roll |-> fd.universityRoll, subject_name |-> fd.subjectName,
     subject_code |-> fd.subjectCode, topics |-> validTopics(fd),
     output_filename |->
        IF fd.outputFilename # <<>> THEN fd.outputFilename
        ELSE DefaultOutputFilename(fd),
     gemini_api_key |-> apiKey(fd, env),
     handwriting_id |-> fd.handwritingId]

\* requestBody of part_000
requestBodyPart000(fd) ==
    [name |-> fd.name, class_roll |-> fd.classRoll,
     university_roll |-> fd.universityRoll, subject_name |-> fd.subjectName,
     subject_code |-> fd.subjectCode, topics |-> validTopics(fd),
     output_filename |-> DefaultOutputFilename(fd),
     gemini_api_key |-> fd.geminiApiKey,
     handwriting_id |-> fd.handwritingId]

requestBody(r, fd, env) ==
    IF r = "App" THEN requestBodyApp(fd, env) ELSE requestBodyPart000(fd)

----------------------------------------------------------------------------
(* Submission: the response *)

\* values of the content-type response header: a sequence of tokens, or Null
\* when the header is missing
ContentTypes ==
    {Null, Some(<<"application/json">>), Some(<<"application/pdf">>),
     Some(<<"application/pdf", ";charset=binary">>)}

\* the content-type test as an equality: contentType === "application/pdf"
IsPdfContentTypeExact(contentType) ==
    contentType = Some(<<"application/pdf">>)

\* contentType && contentType.includes("application/pdf")
IsPdfContentType(contentType) ==
    /\ contentType # Null
    /\ \E i \in 1..Len(contentType[1]) : contentType[1][i] = "application/pdf"

\* the five result fields of a JSON response, each absent or a string
JsonResults ==
    [pdf_data : {Null, Some(<<"UERG">>)},
     pdf_url : {Null, Some(<<"https://host/a.pdf">>)},
     output_path : {Null, Some(<<"/out/a.pdf">>)},
     image_url : {Null, Some(<<"https://host/a.png">>)},
     image_data : {Null, Some(<<"iVBOR">>)}]

\* the JSON bodies the service answers with in Spec: none of the fields, each
\* field alone, and a PDF field together with an image field
ServiceResults ==
    {r \in JsonResults :
        \/ Cardinality({f \in DOMAIN r : r[f] # Null}) <= 1
        \/ {f \in DOMAIN r : r[f] # Null} = {"pdf_data", "image_url"}
        \/ {f \in DOMAIN r : r[f] # Null} = {"output_path", "image_data"}}

\* JavaScript truthiness of an optional string: undefined and "" are falsy
Truthy(x) == x # Null /\ x[1] # <<>>

\* URL.createObjectURL(blob): a fresh blob: URL for every call
createObjectURL(i) == <<"blob:", "object">>

\* JsonOutcome with pdf_url tested before pdf_data
JsonOutcomeUrlFirst(result) ==
    IF Truthy(result.pdf_url)
    THEN [thrown |-> FALSE, kind |-> "pdf_url", pdf |-> TRUE,
          url |-> result.pdf_url[1]]
    ELSE IF Truthy(result.pdf_data)
    THEN [thrown |-> FALSE, kind |-> "pdf_data", pdf |-> TRUE,
          url |-> <<"data:application/pdf;base64,">> \o result.pdf_data[1]]
    ELSE IF Truthy(result.output_path)
    THEN [thrown |-> FALSE, kind |-> "output_path", pdf |-> TRUE,
          url |-> result.output_path[1]]
    ELSE IF Truthy(result.image_url)
    THEN [thrown |-> FALSE, kind |-> "image_url", pdf |-> FALSE,
          url |-> result.image_url[1]]
    ELSE IF Truthy(result.image_data)
    THEN [thrown |-> FALSE, kind |-> "image_data", pdf |-> FALSE,
          url |-> <<"data:image/png;base64,">> \o result.image_data[1]]
    ELSE [thrown |-> TRUE, kind |-> "none", pdf |-> FALSE, url |-> <<>>]

\* what the JSON branch of handleSubmit makes of result: thrown, or the
\* arguments of setGeneratedImageUrl and setIsPdfContent (kind is the field used)
JsonOutcome(result) ==
    IF Truthy(result.pdf_url) \/ Truthy(result.pdf_data)
          \/ Truthy(result.output_path)
    THEN IF Truthy(result.pdf_data)
         THEN [thrown |-> FALSE, kind |-> "pdf_data", pdf |-> TRUE,
               url |-> <<"data:application/pdf;base64,">> \o result.pdf_data[1]]
         ELSE IF Truthy(result.pdf_url)
         THEN [thrown |-> FALSE, kind |-> "pdf_url", pdf |-> TRUE,
               url |-> result.pdf_url[1]]
         ELSE [thrown |-> FALSE, kind |-> "output_path", pdf |-> TRUE,
               url |-> result.output_path[1]]
    ELSE IF Truthy(result.image_url) \/ Truthy(result.image_data)
    THEN IF Truthy(result.image_url)
         THEN [thrown |-> FALSE, kind |-> "image_url", pdf |-> FALSE,
               url |-> result.image_url[1]]
         ELSE [thrown |-> FALSE, kind |-> "image_data", pdf |-> FALSE,
               url |-> <<"data:image/png;base64,">> \o result.image_data[1]]
    ELSE [thrown |-> TRUE, kind |-> "none", pdf |-> FALSE, url |-> <<>>]

\* what the binary branch of handleSubmit sets for request i
BlobOutcome(i) ==
    [thrown |-> FALSE, kind |-> "blob", pdf |-> TRUE, url |-> createObjectURL(i)]

----------------------------------------------------------------------------
(* Download *)

\* ReplaceWhitespaceRuns with one underscore for every whitespace character
ReplaceWhitespaceEach(s) ==
    [i \in 1..Len(s) |-> IF s[i] \in Whitespace THEN "_" ELSE s[i]]

\* s.replace(/\s+/g, "_"): every run of whitespace becomes one underscore
RECURSIVE ReplaceWhitespaceRuns(_)
ReplaceWhitespaceRuns(s) ==
    IF s = <<>> THEN <<>>
    ELSE IF Head(s) \in Whitespace
    THEN <<"_">> \o ReplaceWhitespaceRuns(TrimStart(Tail(s)))
    ELSE <<Head(s)>> \o ReplaceWhitespaceRuns(Tail(s))

\* isPdfContent ? "pdf" : "png"
extension(closure) == IF closure.isPdfContent THEN "pdf" ELSE "png"

\* `${formData.topics[0]?.replace(/\s+/g, "_")}`: the text "undefined" when
\* topics is empty
FirstTopicStem(fd) ==
    IF fd.topics = <<>> THEN <<"undefined">>
    ELSE ReplaceWhitespaceRuns(fd.topics[1])

\* `${name}_${topic}_assignment.${extension}` of downloadImage
DerivedFileName(closure) ==
    ReplaceWhitespaceRuns(closure.formData.name) \o <<"_">>
       \o FirstTopicStem(closure.formData)
       \o <<"_assignment", ".", extension(closure)>>

\* fileName of downloadImage, App.tsx
fileNameApp(closure) ==
    IF closure.formData.outputFilename # <<>>
    THEN closure.formData.outputFilename \o <<".", extension(closure)>>
    ELSE DerivedFileName(closure)

\* fileName of downloadImage, part_000
fileNamePart000(closure) == DerivedFileName(closure)

fileName(r, closure) ==
    IF r = "App" THEN fileNameApp(closure) ELSE fileNamePart000(closure)

----------------------------------------------------------------------------
(* Result section *)

\* {!generatedImageUrl && !isGenerating && (...)}: the placeholder
IdleView(closure) ==
    ~Truthy(closure.generatedImageUrl) /\ ~closure.isGenerating

\* {isGenerating && (...)}: the progress animation
ProgressView(closure) == closure.isGenerating

\* {generatedImageUrl && (...)}: the result with its Download button
ResultView(closure) == Truthy(closure.generatedImageUrl)

\* the views of the result section that a render draws
ViewsDrawn(closure) ==
    (IF IdleView(closure) THEN {"idle"} ELSE {})
       \cup (IF ProgressView(closure) THEN {"progress"} ELSE {})
       \cup (IF ResultView(closure) THEN {"result"} ELSE {})

----------------------------------------------------------------------------
(* State machine *)

\* what a render captures for the closures it creates and for the result
\* section it draws
Snapshot ==
    [formData |-> formData, isGenerating |-> isGenerating,
     generatedImageUrl |-> generatedImageUrl, isPdfContent |-> isPdfContent]

EnvKeys == { <<>>, <<"K">> }

Init ==
    /\ rev \in Revisions
    /\ envKey \in EnvKeys
    /\ formData = InitialFormData(rev, envKey)
    /\ isGenerating = FALSE
    /\ generatedImageUrl = Null
    /\ error = Null
    /\ isPdfContent = FALSE
    /\ rendered = [formData |-> InitialFormData(rev, envKey),
                   isGenerating |-> FALSE, generatedImageUrl |-> Null,
                   isPdfContent |-> FALSE]
    /\ requests = <<>>
    /\ edits = 0
    /\ resultKind = "none"
    /\ resultName = Null
    /\ sinceReset = FALSE
    /\ saved = Null

\* React re-renders the component with the current state
Render ==
    /\ rendered # Snapshot
    /\ rendered' = Snapshot
    /\ UNCHANGED <<rev, envKey, formData, isGenerating, generatedImageUrl,
                   error, isPdfContent, requests, edits, resultKind, resultName,
                   sinceReset, saved>>

handleInputChange(field, value) ==
    /\ edits < MaxEdits
    /\ formData' = InputChangeUpdater(formData, field, value)
    /\ edits' = edits + 1
    /\ UNCHANGED <<rev, envKey, isGenerating, generatedImageUrl, error,
                   isPdfContent, rendered, requests, resultKind, resultName, sinceReset,
                   saved>>

handleTopicChange(index, value) ==
    /\ edits < MaxEdits
    /\ formData' = TopicChangeUpdater(formData, index, value)
    /\ edits' = edits + 1
    /\ UNCHANGED <<rev, envKey, isGenerating, generatedImageUrl, error,
                   isPdfContent, rendered, requests, resultKind, resultName, sinceReset,
                   saved>>

addTopic ==
    /\ edits < MaxEdits
    /\ Len(formData.topics) < MaxTopics
    /\ formData' = AddTopicUpdater(formData)
    /\ edits' = edits + 1
    /\ UNCHANGED <<rev, envKey, isGenerating, generatedImageUrl, error,
                   isPdfContent, rendered, requests, resultKind, resultName, sinceReset,
                   saved>>

removeTopic(index) ==
    /\ formData' = IF RemoveTopicAllowed(rendered)
                   THEN RemoveTopicUpdater(formData, index)
                   ELSE formData
    /\ UNCHANGED <<rev, envKey, isGenerating, generatedImageUrl, error,
                   isPdfContent, rendered, requests, edits, resultKind, resultName,
                   sinceReset, saved>>

\* handleSubmit with a failed gate also putting the form back to its defaults
handleSubmitClearsForm ==
    LET fd == rendered.formData
        gate == SubmitGate(rev, fd, envKey)
    IN  /\ ~rendered.isGenerating
        /\ gate = "send" => Len(requests) < MaxInFlight
        /\ generatedImageUrl' = Null
        /\ isPdfContent' = FALSE
        /\ resultKind' = "none"
        /\ resultName' = Null
        /\ error' = IF gate = "send" THEN Null ELSE Some(GateMessage(gate))
        /\ isGenerating' = (gate = "send")
        /\ requests' = IF gate = "send"
                       THEN Append(requests,
                                   [phase |-> "fetch",
                                    override |-> fd.outputFilename,
                                    typed |-> formData.outputFilename,
                                    body |-> requestBody(rev, fd, envKey)])
                       ELSE requests
        /\ sinceReset' = FALSE
        /\ formData' = IF gate = "send" THEN formData
                       ELSE ResetFormData(rev, envKey)
        /\ UNCHANGED <<rev, envKey, rendered, edits, saved>>

\* The synchronous part of handleSubmit, up to the return of a failed gate or
\* to the fetch call.  The submit button is disabled={isGenerating}, so the
\* event is only delivered when the last render had isGenerating false.
handleSubmit ==
    LET fd == rendered.formData
        gate == SubmitGate(rev, fd, envKey)
    IN  /\ ~rendered.isGenerating
        /\ gate = "send" => Len(requests) < MaxInFlight
        /\ generatedImageUrl' = Null
        /\ isPdfContent' = FALSE
        /\ resultKind' = "none"
        /\ resultName' = Null
        /\ error' = IF gate = "send" THEN Null ELSE Some(GateMessage(gate))
        /\ isGenerating' = (gate = "send")
        /\ requests' = IF gate = "send"
                       THEN Append(requests,
                                   [phase |-> "fetch",
                                    override |-> fd.outputFilename,
                                    typed |-> formData.outputFilename,
                                    body |-> requestBody(rev, fd, envKey)])
                       ELSE requests
        /\ sinceReset' = FALSE
        /\ UNCHANGED <<rev, envKey, formData, rendered, edits, saved>>

\* requests without its i-th entry
Remove(reqs, i) == SubSeq(reqs, 1, i - 1) \o SubSeq(reqs, i + 1, Len(reqs))

\* Fails without the finally block: isGenerating is left as it is
FailsNoFinally(i) ==
    /\ error' = Some(GenericFailureMessage)
    /\ requests' = Remove(requests, i)
    /\ UNCHANGED <<isGenerating, generatedImageUrl, isPdfContent, resultKind, resultName>>

\* Fails with the message of the caught error shown: setError(err.message)
FailsWithDetail(i) ==
    /\ error' = Some("No PDF or image data received from API")
    /\ isGenerating' = FALSE
    /\ requests' = Remove(requests, i)
    /\ UNCHANGED <<generatedImageUrl, isPdfContent, resultKind, resultName>>

\* catch and finally of handleSubmit, for request i
Fails(i) ==
    /\ error' = Some(GenericFailureMessage)
    /\ isGenerating' = FALSE
    /\ requests' = Remove(requests, i)
    /\ UNCHANGED <<generatedImageUrl, isPdfContent, resultKind, resultName>>

\* Succeeds without the finally block: isGenerating is left as it is
SucceedsNoFinally(i, outcome) ==
    /\ generatedImageUrl' = Some(outcome.url)
    /\ isPdfContent' = outcome.pdf
    /\ resultKind' = outcome.kind
    /\ resultName' = Some([sent |-> requests[i].body.output_filename,
                         override |-> requests[i].override,
                         typed |-> requests[i].typed])
    /\ requests' = Remove(requests, i)
    /\ UNCHANGED <<error, isGenerating>>

\* Succeeds without the call of setIsPdfContent
SucceedsUrlOnly(i, outcome) ==
    /\ generatedImageUrl' = Some(outcome.url)
    /\ resultKind' = outcome.kind
    /\ resultName' = Some([sent |-> requests[i].body.output_filename,
                         override |-> requests[i].override,
                         typed |-> requests[i].typed])
    /\ isGenerating' = FALSE
    /\ requests' = Remove(requests, i)
    /\ UNCHANGED <<error, isPdfContent>>

\* the end of the try block and finally of handleSubmit, for request i
Succeeds(i, outcome) ==
    /\ generatedImageUrl' = Some(outcome.url)
    /\ isPdfContent' = outcome.pdf
    /\ resultKind' = outcome.kind
    /\ resultName' = Some([sent |-> requests[i].body.output_filename,
                         override |-> requests[i].override,
                         typed |-> requests[i].typed])
    /\ isGenerating' = FALSE
    /\ requests' = Remove(requests, i)
    /\ UNCHANGED error

\* fetch rejects (network failure)
FetchRejects(i) ==
    /\ requests[i].phase = "fetch"
    /\ Fails(i)
    /\ UNCHANGED <<rev, envKey, formData, rendered, edits, sinceReset,
                   saved>>

\* fetch resolves with a response: the code up to await response.blob() or
\* await response.json(), or to the throw of a non-OK status
FetchResolves(i, ok, contentType) ==
    /\ requests[i].phase = "fetch"
    /\ IF ~ok
       THEN Fails(i)
       ELSE /\ requests' = [requests EXCEPT ![i].phase =
                              IF IsPdfContentType(contentType)
                              THEN "blob" ELSE "json"]
            /\ UNCHANGED <<error, isGenerating, generatedImageUrl,
                           isPdfContent, resultKind, resultName>>
    /\ UNCHANGED <<rev, envKey, formData, rendered, edits, sinceReset,
                   saved>>

\* response.blob() settles
BlobSettles(i, resolved) ==
    /\ requests[i].phase = "blob"
    /\ IF resolved THEN Succeeds(i, BlobOutcome(i)) ELSE Fails(i)
    /\ UNCHANGED <<rev, envKey, formData, rendered, edits, sinceReset,
                   saved>>

\* response.json() rejects: the body is not JSON
JsonRejects(i) ==
    /\ requests[i].phase = "json"
    /\ Fails(i)
    /\ UNCHANGED <<rev, envKey, formData, rendered, edits, sinceReset,
                   saved>>

\* response.json() resolves with result
JsonResolves(i, result) ==
    /\ requests[i].phase = "json"
    /\ IF JsonOutcome(result).thrown
       THEN Fails(i)
       ELSE Succeeds(i, JsonOutcome(result))
    /\ UNCHANGED <<rev, envKey, formData, rendered, edits, sinceReset,
                   saved>>

resetForm ==
    /\ formData' = ResetFormData(rev, envKey)
    /\ generatedImageUrl' = Null
    /\ error' = Null
    /\ isPdfContent' = FALSE
    /\ resultKind' = "none"
    /\ resultName' = Null
    /\ sinceReset' = TRUE
    /\ UNCHANGED <<rev, envKey, isGenerating, rendered, requests, edits,
                   saved>>

\* downloadImage, called from the Download button of the result section: it
\* reads generatedImageUrl, isPdfContent and formData as the last render
\* captured them and hands the link to the browser
downloadImage ==
    /\ Truthy(rendered.generatedImageUrl)
    /\ saved' = Some([href |-> rendered.generatedImageUrl[1],
                      download |-> fileName(rev, rendered)])
    /\ UNCHANGED <<rev, envKey, formData, isGenerating, generatedImageUrl,
                   error, isPdfContent, rendered, requests, edits, resultKind,
                   resultName, sinceReset>>

\* the completion steps of the requests in flight
Completion ==
    \/ \E i \in 1..Len(requests) : FetchRejects(i)
    \/ \E i \in 1..Len(requests) : \E ok \in BOOLEAN :
          \E contentType \in ContentTypes : FetchResolves(i, ok, contentType)
    \/ \E i \in 1..Len(requests) : \E resolved \in BOOLEAN :
          BlobSettles(i, resolved)
    \/ \E i \in 1..Len(requests) : JsonRejects(i)
    \/ \E i \in 1..Len(requests) : \E result \in ServiceResults :
          JsonResolves(i, result)

Next ==
    \/ Render
    \/ \E field \in InputFields(rev) : \E value \in InputValues(field) :
          handleInputChange(field, value)
    \/ \E index \in 0..MaxTopics : \E value \in TopicValues :
          handleTopicChange(index, value)
    \/ addTopic
    \/ \E index \in 0..MaxTopics : removeTopic(index)
    \/ handleSubmit
    \/ resetForm
    \/ downloadImage
    \/ Completion

Spec == Init /\ [][Next]_vars

\* A session in which only the first topic is typed: submissions may
\* overlap and the service may answer in every way.
NextFlow ==
    \/ Render
    \/ \E value \in TopicValues : handleTopicChange(0, value)
    \/ handleSubmit
    \/ resetForm
    \/ Completion

SpecFlow == Init /\ [][NextFlow]_vars

\* A session with every edit of the form, in which a submission is only
\* started once the request before it has completed.
NextForm ==
    \/ Render
    \/ \E field \in InputFields(rev) : \E value \in InputValues(field) :
          handleInputChange(field, value)
    \/ \E index \in 0..MaxTopics : \E value \in TopicValues :
          handleTopicChange(index, value)
    \/ addTopic
    \/ \E index \in 0..MaxTopics : removeTopic(index)
    \/ requests = <<>> /\ handleSubmit
    \/ resetForm
    \/ Completion

SpecForm == Init /\ [][NextForm]_vars

\* A session at the list of topics: entries are typed, added and removed,
\* and the form is reset.
NextTopics ==
    \/ Render
    \/ \E index \in 0..MaxTopics : \E value \in TopicValues :
          handleTopicChange(index, value)
    \/ addTopic
    \/ \E index \in 0..MaxTopics : removeTopic(index)
    \/ resetForm

SpecTopics == Init /\ [][NextTopics]_vars

\* A session of one request at a time in which only the first topic is
\* typed, with a service whose JSON bodies hold every combination of the five
\* result fields.
NextJson ==
    \/ Render
    \/ \E value \in TopicValues : handleTopicChange(0, value)
    \/ requests = <<>> /\ handleSubmit
    \/ resetForm
    \/ Completion
    \/ \E i \in 1..Len(requests) : \E result \in JsonResults :
          JsonResolves(i, result)

SpecJson == Init /\ [][NextJson]_vars

\* The submissions of SpecFlow and their completions, without resetForm
\* (which writes neither isGenerating nor the requests in flight), with a
\* network whose calls settle: a request in flight does not wait forever for
\* its response or for the reading of its body.
NextLive ==
    \/ Render
    \/ \E value \in TopicValues : handleTopicChange(0, value)
    \/ handleSubmit
    \/ Completion

SpecLive == Init /\ [][NextLive]_vars /\ WF_vars(Completion)

\* The texts of a form that has been filled in: universityRoll and
\* subjectCode with and without whitespace, lists of topics with blank and
\* padded entries, a name with a run of whitespace, and (App.tsx) an output
\* file name.
TypedRolls == { <<"21CS045">>, <<"21", " ", "CS045">> }

TypedCodes == { <<"CS", " ", "101">>, <<" ", "CS", " ", " ", "101">> }

TypedTopics ==
    { << <<"Newton's", " ", "Laws">> >>,
      << <<" ">>, <<"b">>, <<>>, <<"a">> >>,
      << <<" ", "a", " ", "b", " ">>, <<"a">> >>,
      << <<>>, <<" ">> >> }

TypedName == <<"Jane", " ", " ", "Doe">>

TypedOutputFilenames(r) == IF r = "App" THEN { <<>>, <<"draft">> } ELSE { <<>> }

TypedForms(r, env) ==
    { [InitialFormData(r, env) EXCEPT !.universityRoll = u, !.subjectCode = c,
                                      !.topics = t, !.outputFilename = o] :
         u \in TypedRolls, c \in TypedCodes, t \in TypedTopics,
         o \in TypedOutputFilenames(r) }
    \cup
    { [InitialFormData(r, env) EXCEPT !.name = TypedName, !.topics = t,
                                      !.outputFilename = o] :
         t \in TypedTopics, o \in TypedOutputFilenames(r) }

\* the component after the user has filled in the form and it has re-rendered
InitTyped ==
    /\ rev \in Revisions
    /\ envKey = <<"K">>
    /\ formData \in TypedForms(rev, envKey)
    /\ isGenerating = FALSE
    /\ generatedImageUrl = Null
    /\ error = Null
    /\ isPdfContent = FALSE
    /\ rendered = Snapshot
    /\ requests = <<>>
    /\ edits = 0
    /\ resultKind = "none"
    /\ resultName = Null
    /\ sinceReset = FALSE
    /\ saved = Null

\* A session on a filled-in form: the output file name is typed, the form is
\* submitted (one request at a time), and the result is downloaded.
NextTyped ==
    \/ Render
    \/ /\ "outputFilename" \in InputFields(rev)
       /\ \E value \in InputValues("outputFilename") :
             handleInputChange("outputFilename", value)
    \/ requests = <<>> /\ handleSubmit
    \/ downloadImage
    \/ Completion

SpecTyped == InitTyped /\ [][NextTyped]_vars

----------------------------------------------------------------------------
(* Properties *)

\* every token of every entry is whitespace (an empty list included)
AllBlank(topics) ==
    \A i \in 1..Len(topics) :
        \A j \in 1..Len(topics[i]) : topics[i][j] \in Whitespace

\* the branches of handleSubmit that produce a PDF result
PdfKinds == {"blob", "pdf_data", "pdf_url", "output_path"}

\* C1: in every reachable state at most one of isGenerating, a result
\* (generatedImageUrl present) and an error holds; in particular a result and
\* an error are never present together.
C1_AtMostOneVisible ==
    /\ ~(isGenerating /\ generatedImageUrl # Null)
    /\ ~(isGenerating /\ error # Null)
    /\ ~(generatedImageUrl # Null /\ error # Null)

\* C2: topics always has at least one entry, whatever addTopic and
\* removeTopic calls are handled and whenever the component re-renders, and
\* removeTopic called when topics has one entry leaves topics unchanged.
C2_TopicsNeverEmpty ==
    [][/\ Len(formData'.topics) >= 1
       /\ (/\ \E index \in 0..MaxTopics : removeTopic(index)
           /\ Len(formData.topics) = 1) => formData'.topics = formData.topics
      ]_vars

\* C3: isGenerating is true exactly while a generation request is in flight.
C3_GeneratingIffInFlight == isGenerating <=> (requests # <<>>)

\* C4: at most one generation request is in flight at any time.
C4_AtMostOneInFlight == Len(requests) <= 1

\* C5: generatedImageUrl never holds a PDF result (binary PDF, pdf_data,
\* pdf_url, output_path) while isPdfContent is false, and isPdfContent is
\* never true while generatedImageUrl is absent.
C5_PdfFlagWithUrl ==
    /\ (generatedImageUrl # Null /\ resultKind \in PdfKinds) => isPdfContent
    /\ isPdfContent => generatedImageUrl # Null

\* a PDF result is shown while another request is still in flight
C5_Witness ==
    /\ generatedImageUrl # Null
    /\ resultKind = "output_path"
    /\ isPdfContent
    /\ requests # <<>>

\* C6: resetForm after a successful generation (a result and no error) puts
\* every field of formData back to its value on a fresh start, handwritingId
\* included, and leaves generatedImageUrl and error absent.
C6_ResetRestoresFreshState ==
    [][(resetForm /\ generatedImageUrl # Null /\ error = Null) =>
          /\ formData' = InitialFormData(rev, envKey)
          /\ generatedImageUrl' = Null
          /\ error' = Null
      ]_vars

\* C7 as claimed: resetForm sets geminiApiKey to the build-time default
\* credential whenever one is configured, and to "" only when none is.
C7_ResetSeedsDefaultKey ==
    [][resetForm => formData'.geminiApiKey = envKey]_vars

\* C7 amended: resetForm sets geminiApiKey to its value on a fresh start: the
\* build-time default credential ("" when none) in part_000, and always "" in
\* App.tsx, which reads the build-time default only when submitting.
C7_ResetKeyAsOnStart ==
    [][resetForm =>
          formData'.geminiApiKey = (IF rev = "App" THEN <<>> ELSE envKey)
      ]_vars

\* resetForm of App.tsx ran with a build-time credential configured after the
\* user had typed a credential, and the field is empty
C7_Witness ==
    /\ sinceReset
    /\ rev = "App"
    /\ envKey # <<>>
    /\ rendered.formData.geminiApiKey = <<"k">>
    /\ formData.geminiApiKey = <<>>

\* C8: once resetForm has run, generatedImageUrl and error stay absent until
\* the next submission is started, also when a request was in flight at the
\* time of the reset.
C8_ResetStaysCleared ==
    sinceReset => (generatedImageUrl = Null /\ error = Null)

\* C9: handleSubmit with every entry of topics empty or whitespace-only sets
\* error to the topics message, issues no request, and ends with isGenerating
\* false and generatedImageUrl absent.
C9_BlankTopicsRejected ==
    [][(handleSubmit /\ AllBlank(rendered.formData.topics)) =>
          /\ error' = Some(TopicsRequiredMessage)
          /\ requests' = requests
          /\ ~isGenerating'
          /\ generatedImageUrl' = Null
      ]_vars

\* the topics message is shown for a form of two entries, one empty and one
\* whitespace-only
C9_Witness ==
    /\ error = Some(TopicsRequiredMessage)
    /\ ~isGenerating
    /\ generatedImageUrl = Null
    /\ rendered.formData.topics = << <<" ">>, <<>> >>

\* C10: handleSubmit with a non-blank topic and handwritingId below 1 or above
\* 6 sets error to the handwriting message, issues no request and ends with
\* isGenerating false; with handwritingId in 1..6 the handwriting message is
\* not set, and the same form with any handwritingId of 1..6 passes the
\* handwriting gate.
C10_HandwritingGate ==
    [][(handleSubmit /\ ~AllBlank(rendered.formData.topics)) =>
          LET h == rendered.formData.handwritingId
          IN  /\ (h # NaN /\ (h < 1 \/ h > 6)) =>
                    /\ error' = Some(HandwritingMessage)
                    /\ requests' = requests
                    /\ ~isGenerating'
              /\ h \in 1..6 => error' # Some(HandwritingMessage)
              /\ \A v \in 1..6 :
                    SubmitGate(rev, [rendered.formData EXCEPT !.handwritingId = v],
                               envKey) # "handwriting"
      ]_vars

\* the handwriting message is shown for handwritingId 7 and a non-blank topic
C10_Witness ==
    /\ error = Some(HandwritingMessage)
    /\ ~isGenerating
    /\ rendered.formData.handwritingId = 7
    /\ ~AllBlank(rendered.formData.topics)

\* a form that passes the topics gate and has handwritingId in 1..6
OtherwiseValid(fd) == ~AllBlank(fd.topics) /\ fd.handwritingId \in 1..6

\* C11: handleSubmit on an otherwise valid form with the trimmed form
\* credential and the build-time default both blank sets the credential
\* message and issues no request; with either of them non-blank a request is
\* issued whose gemini_api_key is the trimmed form credential if that is
\* non-blank, else the build-time default.
C11_CredentialGate ==
    [][(handleSubmit /\ OtherwiseValid(rendered.formData)) =>
          LET typed == Trim(rendered.formData.geminiApiKey)
          IN  IF typed = <<>> /\ envKey = <<>>
              THEN /\ error' = Some(ApiKeyMessage)
                   /\ requests' = requests
              ELSE /\ Len(requests') = Len(requests) + 1
                   /\ requests'[Len(requests')].body.gemini_api_key =
                         (IF typed # <<>> THEN typed ELSE envKey)
      ]_vars

\* C11 amended: in src/src/App.tsx the credential gate is as claimed; part_000
\* has no credential gate: an otherwise valid form always issues a request,
\* and its gemini_api_key is the form credential as typed, untrimmed.
C11_CredentialGateByRevision ==
    [][(handleSubmit /\ OtherwiseValid(rendered.formData)) =>
          LET typed == Trim(rendered.formData.geminiApiKey)
          IN  IF rev = "App" /\ typed = <<>> /\ envKey = <<>>
              THEN /\ error' = Some(ApiKeyMessage)
                   /\ requests' = requests
              ELSE /\ Len(requests') = Len(requests) + 1
                   /\ requests'[Len(requests')].body.gemini_api_key =
                         (IF rev # "App" THEN rendered.formData.geminiApiKey
                          ELSE IF typed # <<>> THEN typed ELSE envKey)
      ]_vars

\* the credential message is shown for a whitespace-only form credential and
\* no build-time default
C11_Witness ==
    /\ rev = "App"
    /\ envKey = <<>>
    /\ error = Some(ApiKeyMessage)
    /\ rendered.formData.geminiApiKey = <<" ">>
    /\ OtherwiseValid(rendered.formData)
    /\ requests = <<>>

\* the first of the five result fields, in the order of the claimed
\* precedence, that holds a non-empty string; "none" when there is none
FirstPresent(result) ==
    IF result.pdf_data # Null THEN "pdf_data"
    ELSE IF result.pdf_url # Null THEN "pdf_url"
    ELSE IF result.output_path # Null THEN "output_path"
    ELSE IF result.image_url # Null THEN "image_url"
    ELSE IF result.image_data # Null THEN "image_data"
    ELSE "none"

\* C12: for every JSON body of an OK response, over all combinations of the
\* five result fields being present (a non-empty string) or absent, the result
\* follows the precedence pdf_data > pdf_url > output_path > image_url >
\* image_data: the first three set isPdfContent true, the last two false,
\* pdf_data and image_data are wrapped as data URLs of type application/pdf and
\* image/png, the URL and path fields are used verbatim, and with none of the
\* five the submission fails.
C12_JsonPrecedence ==
    [][\A i \in 1..Len(requests) : \A result \in JsonResults :
          JsonResolves(i, result) =>
             LET first == FirstPresent(result)
             IN  /\ first = "pdf_data" =>
                       /\ generatedImageUrl' =
                             Some(<<"data:application/pdf;base64,">>
                                     \o result.pdf_data[1])
                       /\ isPdfContent'
                 /\ first = "pdf_url" =>
                       /\ generatedImageUrl' = Some(result.pdf_url[1])
                       /\ isPdfContent'
                 /\ first = "output_path" =>
                       /\ generatedImageUrl' = Some(result.output_path[1])
                       /\ isPdfContent'
                 /\ first = "image_url" =>
                       /\ generatedImageUrl' = Some(result.image_url[1])
                       /\ ~isPdfContent'
                 /\ first = "image_data" =>
                       /\ generatedImageUrl' =
                             Some(<<"data:image/png;base64,">>
                                     \o result.image_data[1])
                       /\ ~isPdfContent'
                 /\ first = "none" =>
                       /\ error' = Some(GenericFailureMessage)
                       /\ generatedImageUrl' = generatedImageUrl
                       /\ isPdfContent' = isPdfContent
                 /\ ~isGenerating'
      ]_vars

\* a PDF data URL is shown as a PDF
C12_Witness ==
    /\ generatedImageUrl = Some(<<"data:application/pdf;base64,", "UERG">>)
    /\ isPdfContent
    /\ resultKind = "pdf_data"
    /\ ~isGenerating
    /\ error = Null

\* the header value has "application/pdf" somewhere in it
MentionsPdf(contentType) ==
    /\ contentType # Null
    /\ "application/pdf" \in {contentType[1][k] : k \in 1..Len(contentType[1])}

\* C13: when an OK response has a content-type containing "application/pdf"
\* the body is read as a binary stream and never parsed as JSON: the request
\* goes on to response.blob(), a request reading its body as a blob never
\* takes a JSON step, and when the blob has been read generatedImageUrl is an
\* object URL and isPdfContent is true.
C13_PdfContentTypeIsBinary ==
    [][\A i \in 1..Len(requests) :
          /\ \A contentType \in ContentTypes :
                (FetchResolves(i, TRUE, contentType) /\ MentionsPdf(contentType))
                   => /\ Len(requests') = Len(requests)
                      /\ requests'[i].phase = "blob"
          /\ requests[i].phase = "blob" =>
                /\ ~JsonRejects(i)
                /\ \A result \in JsonResults : ~JsonResolves(i, result)
                /\ BlobSettles(i, TRUE) =>
                      /\ generatedImageUrl' = Some(<<"blob:", "object">>)
                      /\ isPdfContent'
                      /\ ~isGenerating'
      ]_vars

\* the object URL of a binary PDF is shown as a PDF
C13_Witness ==
    /\ generatedImageUrl = Some(<<"blob:", "object">>)
    /\ isPdfContent
    /\ resultKind = "blob"

\* a JSON body whose only result field is image_data
OnlyImageData(result) ==
    /\ result.image_data # Null
    /\ \A f \in {"pdf_data", "pdf_url", "output_path", "image_url"} :
          result[f] = Null

\* C14: a submission that passed the gates and is answered with an OK
\* response whose JSON body holds only image_data = B ends with isGenerating
\* false, isPdfContent false, generatedImageUrl = "data:image/png;base64," \o B
\* and error absent.
C14_ImageDataScenario ==
    [][\A i \in 1..Len(requests) : \A result \in JsonResults :
          (JsonResolves(i, result) /\ OnlyImageData(result)) =>
             /\ ~isGenerating'
             /\ ~isPdfContent'
             /\ generatedImageUrl' =
                   Some(<<"data:image/png;base64,">> \o result.image_data[1])
             /\ error' = Null
      ]_vars

\* C15: a submission that passed the gates and is answered with a non-OK
\* status ends with isGenerating false, generatedImageUrl absent, isPdfContent
\* false and a non-empty error, whatever the content type, and the body is not
\* read (the request is over with this step).
C15_NonOkScenario ==
    [][\A i \in 1..Len(requests) : \A contentType \in ContentTypes :
          FetchResolves(i, FALSE, contentType) =>
             /\ ~isGenerating'
             /\ generatedImageUrl' = Null
             /\ ~isPdfContent'
             /\ error' # Null /\ error'[1] # ""
             /\ Len(requests') = Len(requests) - 1
      ]_vars

\* the step is a failure of request i after the validation gates: the fetch
\* rejects, the status is not OK, the body cannot be read, or the JSON body
\* has none of the five result fields
FailureStep(i) ==
    \/ FetchRejects(i)
    \/ \E contentType \in ContentTypes : FetchResolves(i, FALSE, contentType)
    \/ BlobSettles(i, FALSE)
    \/ JsonRejects(i)
    \/ \E result \in JsonResults :
          FirstPresent(result) = "none" /\ JsonResolves(i, result)

\* C16: every failure after the validation gates sets error to exactly
\* "Failed to generate assignment. Please try again."; error never holds
\* anything but that message or one of the three validation messages, so the
\* messages of the thrown errors never reach it.
C16_GenericFailureOnly ==
    [][/\ \A i \in 1..Len(requests) :
             FailureStep(i) =>
                error' = Some("Failed to generate assignment. Please try again.")
       /\ error' \in {Null,
                      Some("Failed to generate assignment. Please try again."),
                      Some(TopicsRequiredMessage), Some(HandwritingMessage),
                      Some(ApiKeyMessage)}
      ]_vars

\* a request has failed and the generic message is shown
C16_Witness ==
    /\ error = Some("Failed to generate assignment. Please try again.")
    /\ ~isGenerating
    /\ requests = <<>>
    /\ generatedImageUrl = Null

\* C17: every submission leaves Generating, provided the network call
\* settles: a submission stopped by a gate ends at once with isGenerating false
\* and an error, and whenever isGenerating is true it eventually becomes false
\* in a state that holds a result or an error.
C17_LeavesGenerating ==
    /\ [][(handleSubmit /\ SubmitGate(rev, rendered.formData, envKey) # "send")
             => (~isGenerating' /\ error' # Null)]_vars
    /\ isGenerating ~>
          (~isGenerating /\ (generatedImageUrl # Null \/ error # Null))

\* a request has come to its end with a result
C17_Witness ==
    /\ ~isGenerating
    /\ requests = <<>>
    /\ generatedImageUrl # Null
    /\ error = Null
    /\ ~sinceReset

\* C18: a submission that fails, at a validation gate or during the
\* request, leaves every field of formData as it was; of the state of the
\* component only error, generatedImageUrl, isPdfContent and isGenerating
\* change.
C18_FailureKeepsForm ==
    [][(\/ handleSubmit /\ SubmitGate(rev, rendered.formData, envKey) # "send"
        \/ \E i \in 1..Len(requests) : FailureStep(i))
          => formData' = formData
      ]_vars

\* a gate has stopped the submission and the typed fields are still there
C18_Witness ==
    /\ error = Some(HandwritingMessage)
    /\ formData.topics = << <<"t">> >>
    /\ formData.handwritingId = 0
    /\ rendered.formData = formData

\* C19: a submission that starts a request sets isGenerating true and clears
\* generatedImageUrl, error and isPdfContent, from any state; and once a newer
\* submission is Generating no result or error of an earlier submission
\* becomes visible: a request that ends while a request submitted after it is
\* still in flight leaves generatedImageUrl and error absent.
C19_SubmitClearsEarlier ==
    [][/\ (handleSubmit /\ SubmitGate(rev, rendered.formData, envKey) = "send")
             => /\ isGenerating'
                /\ generatedImageUrl' = Null
                /\ error' = Null
                /\ ~isPdfContent'
       /\ \A i \in 1..(Len(requests) - 1) :
             requests' = Remove(requests, i)
                => (generatedImageUrl' = Null /\ error' = Null)
      ]_vars

\* C20: the first topic can never be removed: after removeTopic(0) the entry
\* that was at index 0 is still at index 0.
C20_FirstTopicStays ==
    [][removeTopic(0) =>
          /\ formData'.topics # <<>>
          /\ Head(formData'.topics) = Head(formData.topics)
      ]_vars

\* the request that the step has just issued
Issued == requests'[Len(requests')]

\* the step is a submission that has issued a request
IssuesRequest == handleSubmit /\ Len(requests') = Len(requests) + 1

\* C21: when the form carries no output file name (always, in part_000), the
\* output_filename of the request is universityRoll as typed, an underscore,
\* and subjectCode without any of its whitespace characters.
C21_DerivedOutputFilename ==
    [][(IssuesRequest /\ rendered.formData.outputFilename = <<>>) =>
          Issued.body.output_filename =
             rendered.formData.universityRoll \o <<"_">> \o
             SelectSeq(rendered.formData.subjectCode, LAMBDA c : c # " ")
      ]_vars

\* "21CS045" and "CS 101" were submitted without an output file name and
\* the request carries "21CS045_CS101"
C21_Witness ==
    /\ requests # <<>>
    /\ formData.outputFilename = <<>>
    /\ formData.universityRoll = <<"21CS045">>
    /\ formData.subjectCode = <<"CS", " ", "101">>
    /\ requests[1].body.output_filename = <<"21CS045", "_", "CS", "101">>

\* s with every maximal run of whitespace characters replaced by one "_"
Underscored(s) ==
    LET starts == SelectSeq([i \in 1..Len(s) |-> i],
                            LAMBDA i : \/ s[i] # " "
                                       \/ i = 1
                                       \/ s[i - 1] # " ")
    IN  [k \in 1..Len(starts) |->
            IF s[starts[k]] = " " THEN "_" ELSE s[starts[k]]]

\* C22: a download of the result on screen is saved as <stem>.<ext>: ext is
\* "pdf" when isPdfContent is true and "png" otherwise, stem is the output
\* file name of the form when there is one (App.tsx), else
\* <name>_<first topic>_assignment with every run of whitespace of the name
\* and of the topic replaced by one underscore.
C22_DownloadFileName ==
    [][downloadImage =>
          LET fd == rendered.formData
              ext == IF rendered.isPdfContent THEN "pdf" ELSE "png"
              stem == IF rev = "App" /\ fd.outputFilename # <<>>
                      THEN fd.outputFilename
                      ELSE Underscored(fd.name) \o <<"_">>
                              \o Underscored(fd.topics[1])
                              \o <<"_assignment">>
          IN  /\ rendered.generatedImageUrl # Null
              /\ saved' # Null
              /\ saved'[1].href = rendered.generatedImageUrl[1]
              /\ saved'[1].download = stem \o <<".", ext>>
      ]_vars

\* a PDF result for "Jane  Doe" and "Newton's Laws" without an output file
\* name was saved as "Jane_Doe_Newton's_Laws_assignment.pdf"
C22_Witness ==
    /\ saved # Null
    /\ isPdfContent
    /\ formData.outputFilename = <<>>
    /\ formData.name = <<"Jane", " ", " ", "Doe">>
    /\ formData.topics[1] = <<"Newton's", " ", "Laws">>
    /\ saved[1].download =
          <<"Jane", "_", "Doe", "_", "Newton's", "_", "Laws", "_assignment",
            ".", "pdf">>

\* C23: when the result on screen was produced by a submission whose form
\* carried the output file name X, the request carried output_filename = X
\* and a download of that result is saved as X.<ext>, whatever was typed
\* into the form after the submission.
C23_OverrideInBothPlaces ==
    [][(/\ downloadImage
        /\ generatedImageUrl # Null
        /\ rendered.generatedImageUrl = generatedImageUrl
        /\ resultName # Null
        /\ resultName[1].override # <<>>
        /\ resultName[1].override = resultName[1].typed) =>
          /\ resultName[1].sent = resultName[1].override
          /\ saved'[1].download =
                resultName[1].override \o
                   <<".", IF rendered.isPdfContent THEN "pdf" ELSE "png">>
      ]_vars

\* C24: the result section shows exactly one of its three views, the
\* placeholder, the progress animation or the result, in the last render and
\* in a render of the current state; the progress animation and the result
\* are never shown together.
C24_ExactlyOneView ==
    \A closure \in {rendered, Snapshot} :
        /\ Cardinality(ViewsDrawn(closure)) = 1
        /\ ~(closure.isGenerating /\ closure.generatedImageUrl # Null)

\* the result of an earlier request is on screen while a later request is
\* still in flight
C24_Witness ==
    /\ ViewsDrawn(rendered) = {"result"}
    /\ ViewsDrawn(Snapshot) = {"result"}
    /\ requests # <<>>

\* the positions of the topics that hold a character other than whitespace
NonBlankPositions(topics) ==
    SelectSeq([i \in 1..Len(topics) |-> i],
              LAMBDA i : \E j \in 1..Len(topics[i]) : topics[i][j] # " ")

\* C25: the topics of every request are the topics of the form that hold a
\* character other than whitespace, in the order of the form and with their
\* text as typed (padding included), and there is at least one.
C25_TopicsSent ==
    [][IssuesRequest =>
          LET topics == rendered.formData.topics
              kept == NonBlankPositions(topics)
          IN  /\ Issued.body.topics = [k \in 1..Len(kept) |-> topics[kept[k]]]
              /\ Issued.body.topics # <<>>
      ]_vars

\* the topics " ", "b", "" and "a" were submitted and the request carries
\* "b" and "a"
C25_Witness ==
    /\ requests # <<>>
    /\ formData.topics = << <<" ">>, <<"b">>, <<>>, <<"a">> >>
    /\ requests[1].body.topics = << <<"b">>, <<"a">> >>

\* C26: whatever text handleInputChange has parsed into handwritingId, a
\* request is only issued when handwritingId is an integer from 1 to 6, so
\* the handwriting_id of every request lies in 1..6.
C26_HandwritingIdInRange ==
    [][IssuesRequest =>
          /\ rendered.formData.handwritingId \in 1..6
          /\ Issued.body.handwriting_id \in 1..6
      ]_vars

\* the handwriting style is a number below 1 or above 6
StyleOutOfRange(fd) ==
    fd.handwritingId # NaN /\ (fd.handwritingId < 1 \/ fd.handwritingId > 6)

\* neither the form nor the environment supplies a credential
NoCredential(fd, env) ==
    /\ \A j \in 1..Len(fd.geminiApiKey) : fd.geminiApiKey[j] = " "
    /\ env = <<>>

\* C27: a submission shows the message of the first gate that fails, in the
\* order topics, handwriting style, credential (the last in App.tsx only), and
\* shows no error when none fails: all-blank topics with an out-of-range
\* style give the topics message, an out-of-range style without a credential
\* gives the handwriting message.
C27_FirstFailingGate ==
    [][handleSubmit =>
          LET fd == rendered.formData
          IN  error' =
                 IF AllBlank(fd.topics)
                 THEN Some("At least one topic/question is required.")
                 ELSE IF StyleOutOfRange(fd)
                 THEN Some("Handwriting ID must be between 1 and 6.")
                 ELSE IF rev = "App" /\ NoCredential(fd, envKey)
                 THEN Some(ApiKeyMessage)
                 ELSE Null
      ]_vars

\* a form with a topic, the style 7 and no credential was submitted and the
\* handwriting message is shown
C27_Witness ==
    /\ rev = "App"
    /\ error = Some(HandwritingMessage)
    /\ rendered.formData = formData
    /\ ~AllBlank(formData.topics)
    /\ formData.handwritingId = 7
    /\ NoCredential(formData, envKey)

\* every field of the form but topics is left as it is
OtherFieldsKept ==
    \A field \in DOMAIN formData \ {"topics"} :
        formData'[field] = formData[field]

C29_UpdateOnlyIndex ==
    [][\A index \in 0..MaxTopics : \A value \in TopicValues :
          handleTopicChange(index, value) =>
             LET topics == formData.topics
             IN  /\ Len(formData'.topics) = Len(topics)
                 /\ \A i \in 1..Len(topics) :
                       formData'.topics[i] =
                          IF i = index + 1 THEN value ELSE topics[i]
                 /\ OtherFieldsKept
                 /\ index >= Len(topics) => formData' = formData
                 /\ UNCHANGED <<isGenerating, generatedImageUrl, error,
                                isPdfContent>>
      ]_vars

\* a second topic was added and "t" typed into it; the first is still empty
C29_Witness ==
    /\ formData.topics = << <<>>, <<"t">> >>
    /\ edits = 2

\* C30: what is shown belongs to the submission started last: the step that
\* ends a request while a request submitted after it is still in flight
\* writes none of generatedImageUrl, isPdfContent, error and isGenerating.
C30_EarlierCompletionSilent ==
    [][\A i \in 1..(Len(requests) - 1) :
          (Completion /\ requests' = Remove(requests, i)) =>
             UNCHANGED <<generatedImageUrl, isPdfContent, error, isGenerating>>
      ]_vars

====
